---- MODULE Spec2Model ----
(***************************************************************************)
(* A model of aratools/parcour.py: the CheckPoint and Etappe value types,  *)
(* the Parcour builder (team roster + etappes extracted from a KML         *)
(* document) and strip_hidden_cp_from_kml.                                 *)
(*                                                                         *)
(* Text is a sequence of one-character strings, so that count, split,      *)
(* strip, lower, int() and float() are computed character by character.    *)
(* A raised exception is a value "<Exception>@<line of parcour.py>".       *)
(* The paths given are those of readable files, the KML path ending in     *)
(* ".kml" (the assertions of lines 45 and 145 hold); kml_doc is what        *)
(* fastkml parsed from the file.                                           *)
(***************************************************************************)
EXTENDS Integers, Sequences, FiniteSets, TLC

VARIABLES
    pc,            \* position of the running operation
    error,         \* "none", or the exception that ended the operation
    team_file,     \* content of the team file (text)
    lines,         \* _process_teams_file: the local `lines`
    team_names,    \* self.team_names
    kml_doc,       \* the parsed KML input: top-level features of the KML object
    folders,       \* _process_etappes_kml: the local `folders`
    fi,            \* number of folders the running loop has consumed
    _etappes,      \* _process_etappes_kml: the local `_etappes`, as built so far
    etappes,       \* self.etappes: a function from etappe idx to Etappe
    attrs,         \* the attributes that have been set on self
    parcour,       \* "none", or "returned" once Parcour(...) has returned self
    new_doc,       \* strip_hidden_cp_from_kml: folders appended to new_doc
    written,       \* strip_hidden_cp_from_kml: the output file was written
    call,          \* Etappe construction: the call being made
    ret,           \* Etappe construction / comparison: what the call gave
    cmp            \* comparisons and sorts evaluated on the checkpoints

vars == <<pc, error, team_file, lines, team_names, kml_doc, folders, fi,
          _etappes, etappes, attrs, parcour, new_doc, written, call, ret, cmp>>

(***************************************************************************)
(* Bounds of the model.                                                    *)
(***************************************************************************)
MaxLen == 3        \* checkpoints in a directly constructed Etappe
MaxIdx == 3        \* checkpoint idx values 1..MaxIdx in a direct construction
MaxFeatures == 3   \* placemarks in a generated folder
MaxFolders == 3    \* top-level features in a document
MaxFileLen == 4    \* characters in a team file

(***************************************************************************)
(* Text.                                                                   *)
(***************************************************************************)
DigitChars == <<"0", "1", "2", "3", "4", "5", "6", "7", "8", "9">>

UpperChars == <<"A", "B", "C", "D", "E", "F", "G", "H", "I", "J", "K", "L", "M",
                "N", "O", "P", "Q", "R", "S", "T", "U", "V", "W", "X", "Y", "Z">>

LowerChars == <<"a", "b", "c", "d", "e", "f", "g", "h", "i", "j", "k", "l", "m",
                "n", "o", "p", "q", "r", "s", "t", "u", "v", "w", "x", "y", "z">>

Whitespace == {" ", "\n", "\t", "\r"}

IsDigit(c) == \E i \in DOMAIN DigitChars : DigitChars[i] = c

DigitVal(c) == (CHOOSE i \in DOMAIN DigitChars : DigitChars[i] = c) - 1

\* str.lower() of one character
LowerChar(c) ==
    IF \E i \in DOMAIN UpperChars : UpperChars[i] = c
    THEN LowerChars[CHOOSE i \in DOMAIN UpperChars : UpperChars[i] = c]
    ELSE c

\* str.lower()
Lower(s) == [i \in DOMAIN s |-> LowerChar(s[i])]

\* str.count(ch) for a one-character ch
Count(s, ch) == Cardinality({i \in DOMAIN s : s[i] = ch})

\* str.split(ch) for a one-character ch: the parts between the occurrences of ch
RECURSIVE SplitFrom(_, _, _, _)
SplitFrom(s, ch, i, part) ==
    IF i > Len(s) THEN <<part>>
    ELSE IF s[i] = ch THEN <<part>> \o SplitFrom(s, ch, i + 1, <<>>)
    ELSE SplitFrom(s, ch, i + 1, Append(part, s[i]))

Split(s, ch) == SplitFrom(s, ch, 1, <<>>)

\* str.strip(): leading and trailing whitespace removed
RECURSIVE LStrip(_)
LStrip(s) == IF s # <<>> /\ Head(s) \in Whitespace THEN LStrip(Tail(s)) ELSE s

RECURSIVE RStrip(_)
RStrip(s) ==
    IF s # <<>> /\ s[Len(s)] \in Whitespace
    THEN RStrip(SubSeq(s, 1, Len(s) - 1)) ELSE s

Strip(s) == RStrip(LStrip(s))

\* str(n) for n >= 0
RECURSIVE IntToStr(_)
IntToStr(n) ==
    IF n < 10 THEN <<DigitChars[n + 1]>>
    ELSE Append(IntToStr(n \div 10), DigitChars[(n % 10) + 1])

RECURSIVE DigitsVal(_)
DigitsVal(s) ==
    IF s = <<>> THEN 0
    ELSE 10 * DigitsVal(SubSeq(s, 1, Len(s) - 1)) + DigitVal(s[Len(s)])

AllDigits(s) == \A i \in DOMAIN s : IsDigit(s[i])

Unsigned(s) == IF s # <<>> /\ Head(s) \in {"+", "-"} THEN Tail(s) ELSE s

Sign(s) == IF s # <<>> /\ Head(s) = "-" THEN -1 ELSE 1

\* int(s) of a text: optional surrounding whitespace, optional sign, digits;
\* anything else raises ValueError
ParseInt(s) ==
    LET body == Unsigned(Strip(s)) IN
    IF body # <<>> /\ AllDigits(body)
    THEN [ok |-> TRUE, val |-> Sign(Strip(s)) * DigitsVal(body)]
    ELSE [ok |-> FALSE, val |-> 0]

\* int(float(s)) of a text in decimal notation: digits with at most one ".",
\* at least one digit; the fraction is truncated. Anything else raises ValueError
ParseFloatToInt(s) ==
    LET body == Unsigned(Strip(s))
        parts == Split(body, ".")
    IN  IF /\ Len(parts) \in {1, 2}
           /\ \A k \in DOMAIN parts : AllDigits(parts[k])
           /\ \E k \in DOMAIN parts : parts[k] # <<>>
        THEN [ok |-> TRUE, val |-> Sign(Strip(s)) * DigitsVal(parts[1])]
        ELSE [ok |-> FALSE, val |-> 0]

(***************************************************************************)
(* CheckPoint: a frozen dataclass (eq=True, order=False), so == compares   *)
(* all the fields and < and > are the two methods below.                   *)
(***************************************************************************)
CheckPoint(idx, score, hint, hidden, coordinate) ==
    [idx |-> idx, score |-> score, hint |-> hint, hidden |-> hidden,
     coordinate |-> coordinate]

\* CheckPoint.__lt__(self, n) and __gt__(self, n) when `other` is an int n:
\* the comparison of two ints
CheckPointLtInt(self, n) == self.idx < n

CheckPointGtInt(self, n) == self.idx > n

\* n < cp and n > cp for an int n and a CheckPoint cp: int.__lt__ / int.__gt__
\* return NotImplemented, and Python evaluates the reflected cp.__gt__(n) /
\* cp.__lt__(n)
IntLtCheckPoint(n, cp) == CheckPointGtInt(cp, n)

IntGtCheckPoint(n, cp) == CheckPointLtInt(cp, n)

\* a mutation of CheckPointLt: <= for <
CheckPointLtOrEqual(self, other) == self.idx <= other.idx

\* CheckPoint.__lt__(self, other) for a CheckPoint other: self.idx < other
CheckPointLt(self, other) == IntLtCheckPoint(self.idx, other)

\* CheckPoint.__gt__(self, other) for a CheckPoint other: self.idx > other
CheckPointGt(self, other) == IntGtCheckPoint(self.idx, other)

(***************************************************************************)
(* sorted(checkpoints), as CPython sorts a list of fewer than 64 elements: *)
(* the run at the start of the list is found (a strictly descending run is *)
(* reversed), and the remaining elements are inserted one by one at the    *)
(* place a binary search with < finds.                                     *)
(***************************************************************************)
RECURSIVE RunEnd(_, _, _)
RunEnd(a, k, descending) ==
    IF k > Len(a) THEN k - 1
    ELSE IF CheckPointLt(a[k], a[k - 1]) = descending
         THEN RunEnd(a, k + 1, descending)
         ELSE k - 1

Reverse(a) == [i \in DOMAIN a |-> a[Len(a) + 1 - i]]

RECURSIVE InsertPos(_, _, _, _)
InsertPos(a, pivot, l, r) ==
    IF l >= r THEN l
    ELSE LET p == l + ((r - l) \div 2) IN
         IF CheckPointLt(pivot, a[p])
         THEN InsertPos(a, pivot, l, p)
         ELSE InsertPos(a, pivot, p + 1, r)

RECURSIVE BinarySort(_, _)
BinarySort(a, start) ==
    IF start > Len(a) THEN a
    ELSE LET pivot == a[start]
             l == InsertPos(a, pivot, 1, start)
             moved == SubSeq(a, 1, l - 1) \o <<pivot>> \o SubSeq(a, l, start - 1)
                      \o SubSeq(a, start + 1, Len(a))
         IN  BinarySort(moved, start + 1)

Sorted(a) ==
    IF Len(a) < 2 THEN a
    ELSE LET descending == CheckPointLt(a[2], a[1])
             n == RunEnd(a, 3, descending)
             run == IF descending
                    THEN Reverse(SubSeq(a, 1, n)) \o SubSeq(a, n + 1, Len(a))
                    ELSE a
         IN  BinarySort(run, n + 1)

(***************************************************************************)
(* Etappe.                                                                 *)
(***************************************************************************)
Etappe(idx, kind, checkpoints) ==
    [idx |-> idx, kind |-> kind, checkpoints |-> checkpoints]

NoEtappe == Etappe(0, <<>>, <<>>)

\* a mutation of PostInit: one checkpoint is enough
PostInitOneIsEnough(checkpoints) ==
    IF Sorted(checkpoints) # checkpoints THEN "AssertionError@94"
    ELSE IF ~(Len(checkpoints) > 0) THEN "AssertionError@96"
    ELSE "none"

\* a mutation of PostInit: the order of the checkpoints is not checked
PostInitOrderUnchecked(checkpoints) ==
    IF ~(Len(checkpoints) > 1) THEN "AssertionError@96" ELSE "none"

\* Etappe.__post_init__: the exception it raises, or "none"
PostInit(checkpoints) ==
    IF Sorted(checkpoints) # checkpoints THEN "AssertionError@94"
    ELSE IF ~(Len(checkpoints) > 1) THEN "AssertionError@96"
    ELSE "none"

\* Etappe(idx=..., kind=..., checkpoints=...): the dataclass __init__ sets the
\* fields and runs __post_init__; an exception leaves no Etappe
NewEtappe(idx, kind, checkpoints) ==
    LET err == PostInit(checkpoints) IN
    [err |-> err,
     etappe |-> IF err = "none" THEN Etappe(idx, kind, checkpoints) ELSE NoEtappe,
     cps |-> checkpoints]

\* WKT_converter.to_amersfoort (aratools.coordinate): a pure function from a
\* lon/lat point to a pair of integers
ToAmersfoort(x, y) == <<155000 + x, 463000 + y>>

(***************************************************************************)
(* The KML objects the program reads (fastkml).                            *)
(***************************************************************************)
Data(name, value) == [name |-> name, value |-> value]

\* one record shape for every KML feature: a Document or Folder has a name and
\* features, a Placemark has extended data (has_data FALSE: None) and a point
Feature(type, name, features, has_data, elements, point) ==
    [type |-> type, name |-> name, features |-> features,
     has_data |-> has_data, elements |-> elements, point |-> point]

Placemark(has_data, elements, point) ==
    Feature("Placemark", <<>>, <<>>, has_data, elements, point)

Folder(name, features) == Feature("Folder", name, features, FALSE, <<>>, <<0, 0>>)

Document(name, features) == Feature("Document", name, features, FALSE, <<>>, <<0, 0>>)

\* {e.name.lower(): e.value for e in placemark.extended_data.elements}
CpData(placemark) ==
    [i \in DOMAIN placemark.elements |->
        Data(Lower(placemark.elements[i].name), placemark.elements[i].value)]

HasKey(cp_data, key) == \E i \in DOMAIN cp_data : cp_data[i].name = key

\* cp_data[key]: a later element of the same lower-cased name replaced the earlier
GetKey(cp_data, key) ==
    cp_data[CHOOSE i \in DOMAIN cp_data :
                /\ cp_data[i].name = key
                /\ \A j \in DOMAIN cp_data : cp_data[j].name = key => j <= i].value

KeyScore == <<"s", "c", "o", "r", "e">>

KeyHint == <<"h", "i", "n", "t">>

KeyHidden == <<"h", "i", "d", "d", "e", "n">>

\* lines 109-121 for one placemark, idx being the idx given to its CheckPoint:
\* the exception raised, or "none" and the CheckPoint
CheckPointOf(idx, placemark) ==
    LET cp_data == CpData(placemark)
        score == ParseFloatToInt(GetKey(cp_data, KeyScore))
        hidden == ParseInt(GetKey(cp_data, KeyHidden))
        NoCp == CheckPoint(0, 0, <<>>, FALSE, <<0, 0>>)
        Raise(e) == [err |-> e, cp |-> NoCp]
    IN  IF ~placemark.has_data THEN Raise("AttributeError@110")
        ELSE IF ~HasKey(cp_data, KeyScore) THEN Raise("KeyError@116")
        ELSE IF ~score.ok THEN Raise("ValueError@116")
        ELSE IF ~HasKey(cp_data, KeyHint) THEN Raise("KeyError@117")
        ELSE IF ~HasKey(cp_data, KeyHidden) THEN Raise("KeyError@118")
        ELSE IF ~hidden.ok THEN Raise("ValueError@118")
        ELSE [err |-> "none",
              cp |-> CheckPoint(idx, score.val, GetKey(cp_data, KeyHint),
                                hidden.val # 0,
                                ToAmersfoort(placemark.point[1], placemark.point[2]))]

\* a mutation of PlacemarkToCheckPoint: the 0-based position as idx
PlacemarkToCheckPointZeroBased(i, placemark) == CheckPointOf(i, placemark)

\* the body of the loop of from_kml_folder for placemark number i of
\* enumerate(folder.features()): idx=i + 1
PlacemarkToCheckPoint(i, placemark) == CheckPointOf(i + 1, placemark)

\* the loop of from_kml_folder from placemark number i on, cps built so far
RECURSIVE CollectCheckPoints(_, _, _)
CollectCheckPoints(features, i, cps) ==
    IF i >= Len(features) THEN [err |-> "none", cps |-> cps]
    ELSE LET r == PlacemarkToCheckPoint(i, features[i + 1]) IN
         IF r.err # "none" THEN [err |-> r.err, cps |-> cps]
         ELSE CollectCheckPoints(features, i + 1, Append(cps, r.cp))

\* Etappe.from_kml_folder(folder)
from_kml_folder(folder) ==
    LET name == folder.name
        parts == Split(name, "_")
        idx == ParseInt(parts[Len(parts) - 1])
        kind == parts[Len(parts)]
        loop == CollectCheckPoints(folder.features, 0, <<>>)
        Raise(e, cps) == [err |-> e, etappe |-> NoEtappe, cps |-> cps]
    IN  IF Count(name, "_") # 2 THEN Raise("AssertionError@102", <<>>)
        ELSE IF ~idx.ok THEN Raise("ValueError@104", <<>>)
        ELSE IF loop.err # "none" THEN Raise(loop.err, loop.cps)
        ELSE NewEtappe(idx.val, kind, loop.cps)

(***************************************************************************)
(* Inputs.                                                                 *)
(***************************************************************************)
\* the sequences over S of length at most n
SeqsUpTo(S, n) == UNION {[1..k -> S] : k \in 0..n}

PmVisible ==
    Placemark(TRUE, <<Data(<<"s", "c", "o", "r", "e">>, <<"1", "0">>),
                      Data(<<"h", "i", "n", "t">>, <<"b", "r", "u", "g">>),
                      Data(<<"h", "i", "d", "d", "e", "n">>, <<"0">>)>>, <<1, 1>>)

PmHidden ==
    Placemark(TRUE, <<Data(<<"S", "c", "o", "r", "e">>, <<"5", ".", "5">>),
                      Data(<<"H", "I", "N", "T">>, <<"p", "a", "a", "l">>),
                      Data(<<"H", "i", "d", "d", "e", "n">>, <<"1">>)>>, <<2, 1>>)

PmNoHidden ==
    Placemark(TRUE, <<Data(<<"s", "c", "o", "r", "e">>, <<"2">>),
                      Data(<<"h", "i", "n", "t">>, <<>>)>>, <<3, 1>>)

PmBadHidden ==
    Placemark(TRUE, <<Data(<<"s", "c", "o", "r", "e">>, <<"2">>),
                      Data(<<"h", "i", "n", "t">>, <<>>),
                      Data(<<"h", "i", "d", "d", "e", "n">>, <<"1", ".", "0">>)>>,
              <<4, 1>>)

PmBadScore ==
    Placemark(TRUE, <<Data(<<"s", "c", "o", "r", "e">>, <<"x">>),
                      Data(<<"h", "i", "n", "t">>, <<>>),
                      Data(<<"h", "i", "d", "d", "e", "n">>, <<"0">>)>>, <<5, 1>>)

PmNoData == Placemark(FALSE, <<>>, <<6, 1>>)

Placemarks == {PmVisible, PmHidden, PmNoHidden, PmBadHidden, PmBadScore, PmNoData}

Names ==
    {<<"E", "_", "1", "_", "r", "u", "n">>,
     <<"E", "_", "0", "2", "_", "b", "i", "k", "e">>,
     <<"E", "_", "x", "_", "r", "u", "n">>,
     <<"E", "_", "_">>,
     <<"N", "o", "t", "e", "s">>,
     <<"E", "_", "r", "u", "n">>,
     <<"a", "_", "b", "_", "1", "_", "c">>}

\* every folder with a name of Names and at most MaxFeatures placemarks
GeneratedFolders ==
    {Folder(n, f) : n \in Names, f \in SeqsUpTo(Placemarks, MaxFeatures)}

\* the top-level features a document is made of
TopLevelFeatures ==
    {Folder(<<"E", "_", "1", "_", "r", "u", "n">>, <<PmVisible, PmHidden>>),
     Folder(<<"E", "_", "2", "_", "b", "i", "k", "e">>,
            <<PmVisible, PmVisible, PmHidden>>),
     Folder(<<"E", "_", "0", "1", "_", "b", "i", "k", "e">>,
            <<PmHidden, PmVisible, PmVisible>>),
     Folder(<<"N", "o", "t", "e", "s">>, <<PmNoData, PmHidden>>),
     Folder(<<"E", "_", "r", "u", "n">>, <<PmVisible>>),
     Folder(<<"E", "_", "3", "_", "k", "a", "n", "o">>, <<PmVisible>>),
     Folder(<<"E", "_", "x", "_", "r", "u", "n">>, <<PmVisible, PmVisible>>),
     Folder(<<"E", "_", "4", "_", "r", "u", "n">>, <<PmVisible, PmNoHidden>>),
     Folder(<<"a", "_", "b", "_", "1", "_", "c">>, <<PmVisible, PmVisible>>),
     PmVisible}

DocName == <<"r", "a", "c", "e">>

\* the KML inputs: what k.features() holds after parsing
KmlDocs ==
    {<<>>}
    \cup {<<Document(DocName, fs)>> : fs \in SeqsUpTo(TopLevelFeatures, MaxFolders)}
    \cup {<<Folder(<<"E", "_", "1", "_", "r", "u", "n">>, <<PmVisible, PmHidden>>)>>}

\* one-folder documents over the generated folders
GeneratedDocs == {<<Document(DocName, <<f>>)>> : f \in GeneratedFolders}

FileChars == {"a", "b", " ", "\n"}

TeamFiles == SeqsUpTo(FileChars, MaxFileLen)

\* the checkpoints of a direct construction: idx and score vary
DirectCheckPoints ==
    {CheckPoint(i, sc, <<>>, FALSE, <<0, 0>>) : i \in 1..MaxIdx, sc \in {1, 2}}

NoCall == [via |-> "none", idx |-> 0, kind |-> <<>>, checkpoints |-> <<>>,
           folder |-> Folder(<<>>, <<>>)]

NoRet == [err |-> "none", etappe |-> NoEtappe, cps |-> <<>>]

NoCmp == [op |-> "none", a |-> CheckPoint(0, 0, <<>>, FALSE, <<0, 0>>),
          b |-> CheckPoint(0, 0, <<>>, FALSE, <<0, 0>>),
          lt |-> FALSE, gt |-> FALSE, sorted |-> <<>>, resorted |-> <<>>]

(***************************************************************************)
(* Parcour._process_teams_file.                                            *)
(***************************************************************************)
\* f.readlines(): the text cut after every "\n"; a last line without "\n" is kept
RECURSIVE ReadLinesFrom(_, _, _)
ReadLinesFrom(s, i, line) ==
    IF i > Len(s) THEN (IF line = <<>> THEN <<>> ELSE <<line>>)
    ELSE IF s[i] = "\n" THEN <<Append(line, s[i])>> \o ReadLinesFrom(s, i + 1, <<>>)
    ELSE ReadLinesFrom(s, i + 1, Append(line, s[i]))

ReadLines(s) == ReadLinesFrom(s, 1, <<>>)

\* [line for line in lines if len(line)]
NonEmpty(line) == Len(line) # 0

FilterLines(ls) == SelectSeq(ls, NonEmpty)

\* tuple(f"{i+1} {line.strip()}" for i, line in enumerate(lines))
NumberLines(ls) == [k \in DOMAIN ls |-> IntToStr(k) \o <<" ">> \o Strip(ls[k])]

\* a mutation of ProcessTeamsFile: no assertion on the roster
ProcessTeamsFileNoAssert ==
    /\ pc = "process_teams_file"
    /\ lines' = FilterLines(ReadLines(team_file))
    /\ team_names' = NumberLines(lines')
    /\ attrs' = attrs \cup {"team_names"}
    /\ pc' = "process_etappes_kml"
    /\ UNCHANGED <<error, team_file, kml_doc, folders, fi, _etappes, etappes,
                   parcour, new_doc, written, call, ret, cmp>>

\* lines 36-41; the attribute is set before the assertion is evaluated
ProcessTeamsFile ==
    /\ pc = "process_teams_file"
    /\ lines' = FilterLines(ReadLines(team_file))
    /\ team_names' = NumberLines(lines')
    /\ attrs' = attrs \cup {"team_names"}
    /\ \/ /\ Len(team_names') # 0
          /\ pc' = "process_etappes_kml"
          /\ error' = error
       \/ /\ Len(team_names') = 0
          /\ pc' = "raised"
          /\ error' = "AssertionError@41"
    /\ UNCHANGED <<team_file, kml_doc, folders, fi, _etappes, etappes, parcour,
                   new_doc, written, call, ret, cmp>>

(***************************************************************************)
(* Parcour._process_etappes_kml.                                           *)
(***************************************************************************)
\* lines 46-53: the document is read and parsed, its folders are listed
OpenKml ==
    /\ pc = "process_etappes_kml"
    /\ \/ /\ kml_doc = <<>>
          /\ pc' = "raised"
          /\ error' = "IndexError@50"
          /\ UNCHANGED folders
       \/ /\ kml_doc # <<>>
          /\ kml_doc[1].type # "Document"
          /\ pc' = "raised"
          /\ error' = "AssertionError@51"
          /\ UNCHANGED folders
       \/ /\ kml_doc # <<>>
          /\ kml_doc[1].type = "Document"
          /\ folders' = kml_doc[1].features
          /\ \/ /\ \A i \in DOMAIN folders' : folders'[i].type = "Folder"
                /\ pc' = "etappes_loop"
                /\ error' = error
             \/ /\ \E i \in DOMAIN folders' : folders'[i].type # "Folder"
                /\ pc' = "raised"
                /\ error' = "AssertionError@53"
    /\ fi' = 0
    /\ UNCHANGED <<team_file, lines, team_names, kml_doc, _etappes, etappes,
                   attrs, parcour, new_doc, written, call, ret, cmp>>

\* a mutation of IsEtappeFolder: two underscores or more
IsEtappeFolderAtLeastTwo(f) == Count(f.name, "_") >= 2

\* the filter of the generator expression of lines 55-57
IsEtappeFolder(f) == Count(f.name, "_") = 2

\* one folder of the generator expression of lines 55-57: a folder that passes
\* the filter goes through from_kml_folder, any other folder is passed over
EtappesLoop ==
    /\ pc = "etappes_loop"
    /\ fi < Len(folders)
    /\ fi' = fi + 1
    /\ LET f == folders[fi + 1]
           r == from_kml_folder(f)
       IN  \/ /\ IsEtappeFolder(f)
              /\ r.err = "none"
              /\ _etappes' = Append(_etappes, r.etappe)
              /\ UNCHANGED <<pc, error>>
           \/ /\ IsEtappeFolder(f)
              /\ r.err # "none"
              /\ pc' = "raised"
              /\ error' = r.err
              /\ UNCHANGED _etappes
           \/ /\ ~IsEtappeFolder(f)
              /\ UNCHANGED <<pc, error, _etappes>>
    /\ UNCHANGED <<team_file, lines, team_names, kml_doc, folders, etappes,
                   attrs, parcour, new_doc, written, call, ret, cmp>>

\* a mutation of EtappeDict: the first etappe of an idx is kept
EtappeDictFirstWins(ets) ==
    [i \in {ets[k].idx : k \in DOMAIN ets} |->
        ets[CHOOSE k \in DOMAIN ets :
                /\ ets[k].idx = i
                /\ \A j \in DOMAIN ets : ets[j].idx = i => k <= j]]

\* {et.idx: et for et in ets}: a later etappe of the same idx replaces the earlier
EtappeDict(ets) ==
    [i \in {ets[k].idx : k \in DOMAIN ets} |->
        ets[CHOOSE k \in DOMAIN ets :
                /\ ets[k].idx = i
                /\ \A j \in DOMAIN ets : ets[j].idx = i => j <= k]]

\* a mutation of SetEtappes: an empty set of etappes is refused
SetEtappesNonEmpty ==
    /\ pc = "etappes_loop"
    /\ fi = Len(folders)
    /\ \/ /\ _etappes # <<>>
          /\ etappes' = EtappeDict(_etappes)
          /\ attrs' = attrs \cup {"etappes"}
          /\ parcour' = "returned"
          /\ pc' = "done"
          /\ UNCHANGED error
       \/ /\ _etappes = <<>>
          /\ pc' = "raised"
          /\ error' = "AssertionError@58"
          /\ UNCHANGED <<etappes, attrs, parcour>>
    /\ UNCHANGED <<team_file, lines, team_names, kml_doc, folders, fi,
                   _etappes, new_doc, written, call, ret, cmp>>

\* line 58, and the return of Parcour.__init__ (line 32 was its last statement)
SetEtappes ==
    /\ pc = "etappes_loop"
    /\ fi = Len(folders)
    /\ etappes' = EtappeDict(_etappes)
    /\ attrs' = attrs \cup {"etappes"}
    /\ parcour' = "returned"
    /\ pc' = "done"
    /\ UNCHANGED <<error, team_file, lines, team_names, kml_doc, folders, fi,
                   _etappes, new_doc, written, call, ret, cmp>>

(***************************************************************************)
(* strip_hidden_cp_from_kml.                                               *)
(***************************************************************************)
\* lines 146-154: the document is read and parsed; old_doc is not checked to be
\* a Document
StripOpen ==
    /\ pc = "strip_hidden_cp_from_kml"
    /\ \/ /\ kml_doc = <<>>
          /\ pc' = "raised"
          /\ error' = "IndexError@150"
          /\ UNCHANGED folders
       \/ /\ kml_doc # <<>>
          /\ folders' = kml_doc[1].features
          /\ pc' = "strip_loop"
          /\ error' = error
    /\ fi' = 0
    /\ new_doc' = <<>>
    /\ UNCHANGED <<team_file, lines, team_names, kml_doc, _etappes, etappes,
                   attrs, parcour, written, call, ret, cmp>>

\* bool(int(cp_data["hidden"])) of line 171: the exception, or the flag
HiddenFlag(placemark) ==
    LET cp_data == CpData(placemark)
        hidden == ParseInt(GetKey(cp_data, KeyHidden))
    IN  IF ~placemark.has_data THEN [err |-> "AttributeError@169", val |-> FALSE]
        ELSE IF ~HasKey(cp_data, KeyHidden) THEN [err |-> "KeyError@171", val |-> FALSE]
        ELSE IF ~hidden.ok THEN [err |-> "ValueError@171", val |-> FALSE]
        ELSE [err |-> "none", val |-> hidden.val # 0]

\* the loop of lines 167-172 from placemark number i (1-based) on
RECURSIVE KeepVisible(_, _, _)
KeepVisible(features, i, kept) ==
    IF i > Len(features) THEN [err |-> "none", features |-> kept]
    ELSE LET h == HiddenFlag(features[i]) IN
         IF h.err # "none" THEN [err |-> h.err, features |-> kept]
         ELSE KeepVisible(features, i + 1,
                          IF ~h.val THEN Append(kept, features[i]) ELSE kept)

\* the test of line 166
IsEtappeFolderName(f) == Count(f.name, "_") = 2

\* a mutation of StripFolder: every folder is filtered, whatever its name
StripFolderEveryGroup(old_folder) == KeepVisible(old_folder.features, 1, <<>>)

\* lines 157-175: the features of new_folder for old_folder
StripFolder(old_folder) ==
    IF IsEtappeFolderName(old_folder)
    THEN KeepVisible(old_folder.features, 1, <<>>)
    ELSE [err |-> "none", features |-> old_folder.features]

\* one iteration of the loop of lines 155-176
StripLoop ==
    /\ pc = "strip_loop"
    /\ fi < Len(folders)
    /\ fi' = fi + 1
    /\ LET old_folder == folders[fi + 1]
           r == StripFolder(old_folder)
       IN  \/ /\ old_folder.type # "Folder"
              /\ pc' = "raised"
              /\ error' = "AssertionError@156"
              /\ UNCHANGED new_doc
           \/ /\ old_folder.type = "Folder"
              /\ r.err # "none"
              /\ pc' = "raised"
              /\ error' = r.err
              /\ UNCHANGED new_doc
           \/ /\ old_folder.type = "Folder"
              /\ r.err = "none"
              /\ new_doc' = Append(new_doc, Folder(old_folder.name, r.features))
              /\ UNCHANGED <<pc, error>>
    /\ UNCHANGED <<team_file, lines, team_names, kml_doc, folders, _etappes,
                   etappes, attrs, parcour, written, call, ret, cmp>>

\* lines 177-180: the new document is written
StripWrite ==
    /\ pc = "strip_loop"
    /\ fi = Len(folders)
    /\ written' = TRUE
    /\ pc' = "done"
    /\ UNCHANGED <<error, team_file, lines, team_names, kml_doc, folders, fi,
                   _etappes, etappes, attrs, parcour, new_doc, call, ret, cmp>>

(***************************************************************************)
(* Etappe construction and CheckPoint comparison on their own.             *)
(***************************************************************************)
\* Etappe(idx=..., kind=..., checkpoints=...) (lines 89-96)
ConstructEtappe ==
    /\ pc = "etappe"
    /\ call.via = "direct"
    /\ ret' = NewEtappe(call.idx, call.kind, call.checkpoints)
    /\ \/ /\ ret'.err = "none"
          /\ pc' = "done"
          /\ error' = error
       \/ /\ ret'.err # "none"
          /\ pc' = "raised"
          /\ error' = ret'.err
    /\ UNCHANGED <<team_file, lines, team_names, kml_doc, folders, fi, _etappes,
                   etappes, attrs, parcour, new_doc, written, call, cmp>>

\* Etappe.from_kml_folder(folder) (lines 98-122)
ConstructFromKmlFolder ==
    /\ pc = "etappe"
    /\ call.via = "kml"
    /\ ret' = from_kml_folder(call.folder)
    /\ \/ /\ ret'.err = "none"
          /\ pc' = "done"
          /\ error' = error
       \/ /\ ret'.err # "none"
          /\ pc' = "raised"
          /\ error' = ret'.err
    /\ UNCHANGED <<team_file, lines, team_names, kml_doc, folders, fi, _etappes,
                   etappes, attrs, parcour, new_doc, written, call, cmp>>

\* a < b and a > b for two of the checkpoints (test_checkpoint_ordering)
CompareCheckPoints ==
    /\ pc = "etappe"
    /\ call.via = "direct"
    /\ \E i, j \in DOMAIN call.checkpoints :
          LET a == call.checkpoints[i]
              b == call.checkpoints[j]
          IN  cmp' = [cmp EXCEPT !.op = "compare", !.a = a, !.b = b,
                                 !.lt = CheckPointLt(a, b),
                                 !.gt = CheckPointGt(a, b)]
    /\ pc' = "compared"
    /\ UNCHANGED <<error, team_file, lines, team_names, kml_doc, folders, fi,
                   _etappes, etappes, attrs, parcour, new_doc, written, call, ret>>

\* sorted(checkpoints), and sorted() of the result
SortCheckPoints ==
    /\ pc = "etappe"
    /\ call.via = "direct"
    /\ cmp' = [cmp EXCEPT !.op = "sort", !.sorted = Sorted(call.checkpoints),
                          !.resorted = Sorted(Sorted(call.checkpoints))]
    /\ pc' = "sorted"
    /\ UNCHANGED <<error, team_file, lines, team_names, kml_doc, folders, fi,
                   _etappes, etappes, attrs, parcour, new_doc, written, call, ret>>

(***************************************************************************)
(* Specifications.                                                         *)
(***************************************************************************)
Idle ==
    /\ error = "none"
    /\ lines = <<>>
    /\ team_names = <<>>
    /\ folders = <<>>
    /\ fi = 0
    /\ _etappes = <<>>
    /\ etappes = <<>>
    /\ attrs = {}
    /\ parcour = "none"
    /\ new_doc = <<>>
    /\ written = FALSE
    /\ ret = NoRet
    /\ cmp = NoCmp

\* Parcour(team_csv_path, etappe_kml_path)
BuildTeamFiles == {<<>>, <<"a", "\n", "b", "\n">>}

Init ==
    /\ pc = "process_teams_file"
    /\ team_file \in BuildTeamFiles
    /\ kml_doc \in KmlDocs
    /\ call = NoCall
    /\ Idle

Next == ProcessTeamsFile \/ OpenKml \/ EtappesLoop \/ SetEtappes

Spec == Init /\ [][Next]_vars

\* _process_teams_file over every team file
InitTeams ==
    /\ pc = "process_teams_file"
    /\ team_file \in TeamFiles
    /\ kml_doc = <<>>
    /\ call = NoCall
    /\ Idle

SpecTeams == InitTeams /\ [][ProcessTeamsFile]_vars

\* strip_hidden_cp_from_kml(path)
InitStrip ==
    /\ pc = "strip_hidden_cp_from_kml"
    /\ team_file = <<>>
    /\ kml_doc \in KmlDocs \cup GeneratedDocs
    /\ call = NoCall
    /\ Idle

NextStrip == StripOpen \/ StripLoop \/ StripWrite

SpecStrip == InitStrip /\ [][NextStrip]_vars

\* Etappe(...) and Etappe.from_kml_folder(...) called on their own
InitEtappe ==
    /\ pc = "etappe"
    /\ team_file = <<>>
    /\ kml_doc = <<>>
    /\ call \in {[NoCall EXCEPT !.via = "direct", !.idx = 5, !.kind = <<"r", "u", "n">>,
                                !.checkpoints = cps] :
                    cps \in SeqsUpTo(DirectCheckPoints, MaxLen)}
              \cup {[NoCall EXCEPT !.via = "kml", !.folder = f] : f \in GeneratedFolders}
    /\ Idle

NextEtappe ==
    ConstructEtappe \/ ConstructFromKmlFolder \/ CompareCheckPoints \/ SortCheckPoints

SpecEtappe == InitEtappe /\ [][NextEtappe]_vars

(***************************************************************************)
(* Properties.  The definitions below state what is claimed of the program *)
(* in terms of its inputs; none of them is used by the actions.            *)
(***************************************************************************)
\* the checkpoints of S with idx v, in the order of S
RECURSIVE WithIdx(_, _)
WithIdx(S, v) ==
    IF S = <<>> THEN <<>>
    ELSE (IF Head(S).idx = v THEN <<Head(S)>> ELSE <<>>) \o WithIdx(Tail(S), v)

\* S sorted by idx: for each idx value from the least to the greatest, the
\* checkpoints of that idx
RECURSIVE SortedFrom(_, _, _)
SortedFrom(S, v, top) ==
    IF v > top THEN <<>> ELSE WithIdx(S, v) \o SortedFrom(S, v + 1, top)

SortedByIndex(S) ==
    IF S = <<>> THEN <<>>
    ELSE LET ids == {S[i].idx : i \in DOMAIN S}
             Least == CHOOSE v \in ids : \A w \in ids : v <= w
             Greatest == CHOOSE v \in ids : \A w \in ids : w <= v
         IN  SortedFrom(S, Least, Greatest)

NonDecreasing(S) == \A i, j \in DOMAIN S : i < j => S[i].idx <= S[j].idx

StrictlyAscending(S) == \A i, j \in DOMAIN S : i < j => S[i].idx < S[j].idx

\* a group is a stage group: its name split on "_" has exactly three parts
ThreeParts(f) == Len(Split(f.name, "_")) = 3

MiddlePart(f) == Split(f.name, "_")[2]

LastPart(f) == Split(f.name, "_")[3]

\* the stage groups among the first n features of fs, in document order
RECURSIVE StageGroups(_, _)
StageGroups(fs, n) ==
    IF n = 0 THEN <<>>
    ELSE StageGroups(fs, n - 1) \o (IF ThreeParts(fs[n]) THEN <<fs[n]>> ELSE <<>>)

\* the exceptions of the loops over the placemarks of a group
PlacemarkErrors ==
    {"AttributeError@110", "KeyError@116", "ValueError@116", "KeyError@117",
     "KeyError@118", "ValueError@118"}

DirectDone == pc = "done" /\ call.via = "direct"

KmlDone == pc = "done" /\ call.via = "kml"

\* C1: constructing an Etappe from a checkpoint sequence S succeeds iff
\* len(S) >= 2 and S sorted by idx equals S; otherwise it raises and there is
\* no Etappe.
C1_ConstructionIff ==
    (call.via = "direct" /\ pc \in {"done", "raised"}) =>
        LET S == call.checkpoints IN
        /\ (pc = "done") <=> (Len(S) >= 2 /\ SortedByIndex(S) = S)
        /\ pc = "done" => ret.etappe = Etappe(call.idx, call.kind, S)
        /\ pc = "raised" => (ret.etappe = NoEtappe /\ error # "none")

C1_Witness ==
    /\ DirectDone
    /\ Len(call.checkpoints) = 3
    /\ call.checkpoints[1].idx < call.checkpoints[3].idx

\* C5 as claimed: every constructed Etappe has strictly ascending checkpoint
\* idx (no two checkpoints of the same idx), however it was constructed.
C5_StrictlyAscending ==
    pc = "done" /\ call.via \in {"direct", "kml"} =>
        StrictlyAscending(ret.etappe.checkpoints)

\* C5 amended: every constructed Etappe has its checkpoints in non-decreasing
\* idx order; one built by from_kml_folder has them strictly ascending, one
\* constructed directly may repeat an idx.
C5_NonDecreasing ==
    /\ pc = "done" /\ call.via \in {"direct", "kml"} =>
          NonDecreasing(ret.etappe.checkpoints)
    /\ KmlDone => StrictlyAscending(ret.etappe.checkpoints)

C5_Witness ==
    /\ DirectDone
    /\ \E i \in DOMAIN ret.etappe.checkpoints :
          /\ i + 1 \in DOMAIN ret.etappe.checkpoints
          /\ ret.etappe.checkpoints[i].idx = ret.etappe.checkpoints[i + 1].idx

\* C8: a < b iff a.idx < b.idx and a > b iff a.idx > b.idx, whatever the other
\* fields; sorted() gives the checkpoints in ascending idx order, and sorting
\* the sorted sequence changes nothing.
C8_Ordering ==
    /\ cmp.op = "compare" =>
          /\ cmp.lt <=> (cmp.a.idx < cmp.b.idx)
          /\ cmp.gt <=> (cmp.a.idx > cmp.b.idx)
    /\ cmp.op = "sort" =>
          /\ cmp.sorted = SortedByIndex(call.checkpoints)
          /\ NonDecreasing(cmp.sorted)
          /\ cmp.resorted = cmp.sorted

C8_Witness ==
    /\ cmp.op = "compare"
    /\ cmp.lt
    /\ ~cmp.gt
    /\ cmp.a.score > cmp.b.score

\* C9: from_kml_folder gives the k-th placemark of the folder idx k, so the
\* idx of the checkpoints are 1..n; the ordering assertion of __post_init__
\* never fails for it, and the length assertion fails only when n < 2.
C9_IndexByPosition ==
    call.via = "kml" =>
        /\ \A k \in DOMAIN ret.cps : ret.cps[k].idx = k
        /\ pc = "done" =>
              /\ ret.etappe.checkpoints = ret.cps
              /\ Len(ret.cps) = Len(call.folder.features)
        /\ error # "AssertionError@94"
        /\ error = "AssertionError@96" => Len(call.folder.features) < 2

C9_Witness ==
    /\ KmlDone
    /\ Len(ret.etappe.checkpoints) = 3
    /\ ret.etappe.checkpoints[3].hidden

\* the roster claimed for a team file: the lines of the file without the blank
\* ones, the k-th of them as "<k> <name>"
NotBlank(line) == Strip(line) # <<>>

ClaimedRoster(file) == NumberLines(SelectSeq(Split(file, "\n"), NotBlank))

\* C2: the roster is the non-blank lines of the file numbered 1..N in file
\* order, each as "<k> <name_k>"; a blank line is not in the roster and uses
\* no number.
C2_BlankLinesDropped ==
    pc # "process_teams_file" => team_names = ClaimedRoster(team_file)

\* the placemark is kept by the filter: its hidden flag is zero
HiddenIsZero(placemark) == ParseInt(GetKey(CpData(placemark), KeyHidden)).val = 0

\* C3: the filter gives one group per input group, in order and of the same
\* name; a stage group holds the input group's placemarks whose hidden flag is
\* zero, in order; any other group holds all its features, and the hidden
\* attribute of its features is not read (a feature without one is no error).
C3_FilterPerGroup ==
    /\ pc \in {"strip_loop", "done"} =>
          /\ Len(new_doc) = fi
          /\ \A i \in DOMAIN new_doc :
                /\ new_doc[i].name = folders[i].name
                /\ ThreeParts(folders[i]) =>
                      new_doc[i].features = SelectSeq(folders[i].features, HiddenIsZero)
                /\ ~ThreeParts(folders[i]) =>
                      new_doc[i].features = folders[i].features
    /\ written => (pc = "done" /\ Len(new_doc) = Len(folders))
    /\ error \in {"AttributeError@169", "KeyError@171", "ValueError@171"} =>
          ThreeParts(folders[fi])

C3_Witness ==
    /\ written
    /\ Len(new_doc) = 2
    /\ ThreeParts(folders[1])
    /\ Len(new_doc[1].features) = 1
    /\ Len(folders[1].features) = 2
    /\ ~ThreeParts(folders[2])
    /\ new_doc[2].features = <<PmNoData, PmHidden>>

\* C4: a group goes through extraction iff its name split on "_" has exactly
\* three parts; its Etappe has the integer of the middle part as idx and the
\* last part as kind. Any other group is passed over with all its features and
\* never makes the build fail.
C4_GroupRecognition ==
    /\ pc \in {"etappes_loop", "done"} =>
          LET rec == StageGroups(folders, fi) IN
          /\ Len(_etappes) = Len(rec)
          /\ \A k \in DOMAIN rec :
                /\ ParseInt(MiddlePart(rec[k])).ok
                /\ _etappes[k].idx = ParseInt(MiddlePart(rec[k])).val
                /\ _etappes[k].kind = LastPart(rec[k])
                /\ Len(_etappes[k].checkpoints) = Len(rec[k].features)
    /\ (pc = "raised" /\ fi > 0) => ThreeParts(folders[fi])
    /\ error # "AssertionError@102"

C4_Witness ==
    /\ pc = "done"
    /\ Len(folders) = 3
    /\ Len(_etappes) = 1
    /\ _etappes[1].idx = 2
    /\ \E i \in DOMAIN folders : Count(folders[i].name, "_") = 3
    /\ \E i \in DOMAIN folders : PmNoData = folders[i].features[1]

NoStageGroup == \A i \in DOMAIN kml_doc[1].features : ~ThreeParts(kml_doc[1].features[i])

WellShaped ==
    /\ kml_doc # <<>>
    /\ kml_doc[1].type = "Document"
    /\ \A i \in DOMAIN kml_doc[1].features : kml_doc[1].features[i].type = "Folder"

\* C6 as claimed: a document without a stage group makes the build fail, and
\* every built Parcour has at least one Etappe.
C6_EmptyStageSetFails ==
    pc = "done" => (~NoStageGroup /\ DOMAIN etappes # {})

\* C6 amended: a document without a stage group (a Document whose children are
\* all folders) does not make the build fail: with a non-empty roster the build
\* returns a Parcour whose etappes mapping is empty.
C6_EmptyStageSetBuilds ==
    (WellShaped /\ NoStageGroup) =>
        /\ pc = "raised" => error = "AssertionError@41"
        /\ pc = "done" => (DOMAIN etappes = {} /\ parcour = "returned")

C6_Witness ==
    /\ pc = "done"
    /\ parcour = "returned"
    /\ DOMAIN etappes = {}
    /\ Len(folders) = 2

\* C7: the build is all-or-nothing. A Parcour is returned only with both
\* team_names and etappes set; an empty roster, a document without a Document
\* container, a stage group of fewer than 2 placemarks or a placemark with a
\* missing or unparseable attribute ends the build with that error and no
\* Parcour. The roster is loaded first: when it fails, the document was not read.
C7_AllOrNothing ==
    /\ (parcour = "returned") <=> (pc = "done")
    /\ pc = "done" =>
          /\ attrs = {"team_names", "etappes"}
          /\ error = "none"
          /\ Len(team_names) > 0
          /\ WellShaped
          /\ \A i \in DOMAIN folders :
                ThreeParts(folders[i]) =>
                    /\ Len(folders[i].features) >= 2
                    /\ CollectCheckPoints(folders[i].features, 0, <<>>).err = "none"
    /\ pc = "raised" => (error # "none" /\ parcour = "none" /\ "etappes" \notin attrs)
    /\ team_file = <<>> => pc \in {"process_teams_file", "raised"}
    /\ error = "AssertionError@41" => (folders = <<>> /\ fi = 0 /\ _etappes = <<>>)
    /\ pc \in {"process_etappes_kml", "etappes_loop", "done"} => "team_names" \in attrs
    /\ error \in PlacemarkErrors \cup {"AssertionError@96", "ValueError@104"} =>
          (pc = "raised" /\ "team_names" \in attrs)

C7_Witness ==
    /\ pc = "raised"
    /\ error = "AssertionError@96"
    /\ attrs = {"team_names"}
    /\ parcour = "none"
    /\ Len(_etappes) = 1

\* C10: stage groups of the same stage idx do not make the build fail; all are
\* extracted, and the Parcour keeps under that idx the Etappe of the last of
\* them in document order, so it has as many etappes as there are distinct
\* stage idx.
C10_LastGroupWins ==
    pc = "done" =>
        LET rec == StageGroups(folders, Len(folders))
            Idx(k) == ParseInt(MiddlePart(rec[k])).val
            Last(i) == CHOOSE k \in DOMAIN rec :
                          Idx(k) = i /\ \A j \in DOMAIN rec : Idx(j) = i => j <= k
        IN  /\ Len(_etappes) = Len(rec)
            /\ DOMAIN etappes = {Idx(k) : k \in DOMAIN rec}
            /\ Cardinality(DOMAIN etappes) <= Len(rec)
            /\ \A i \in DOMAIN etappes :
                  /\ etappes[i].idx = i
                  /\ etappes[i].kind = LastPart(rec[Last(i)])
                  /\ Len(etappes[i].checkpoints) = Len(rec[Last(i)].features)

C10_Witness ==
    /\ pc = "done"
    /\ Len(_etappes) = 3
    /\ Cardinality(DOMAIN etappes) = 2
    /\ _etappes[1].kind = <<"r", "u", "n">>
    /\ _etappes[3].idx = 1
    /\ etappes[1].kind = <<"b", "i", "k", "e">>
    /\ Len(etappes[1].checkpoints) = 3

====
